---- MODULE Spec2Model ----
(***************************************************************************)
(* Model of ToPdf.py: the batch runner process_all and the per-file        *)
(* conversion convert_one (upload, export as PDF, delete) with its retry   *)
(* loop, run against a local file system (input and output directories)    *)
(* and a remote service whose calls succeed or fail nondeterministically.  *)
(*                                                                         *)
(* Time is counted in tenths of a second for the backoff waits, and in     *)
(* abstract ticks for file modification times.                             *)
(***************************************************************************)
EXTENDS Integers, Sequences, FiniteSets, TLC

(***************************************************************************)
(* Bounds of the model.                                                    *)
(***************************************************************************)
MaxEntries == 2     \* entries in the input directory
MaxMtime == 2       \* modification times of pre-existing files: 1..MaxMtime

(***************************************************************************)
(* File names are sequences of one-character strings.                      *)
(***************************************************************************)
Alphabet ==
    << ".", "B", "P", "T", "X", "a", "b", "c", "d", "f", "l", "o", "p", "s", "t", "x" >>

Ord(c) == CHOOSE i \in 1..Len(Alphabet) : Alphabet[i] = c

LowerMap == [B |-> "b", P |-> "p", T |-> "t", X |-> "x"]

LowerChar(c) == IF c \in DOMAIN LowerMap THEN LowerMap[c] ELSE c

Lower(s) == [i \in 1..Len(s) |-> LowerChar(s[i])]

\* str <= str of Python: lexicographic on code points, a prefix sorts first
StrLeq(s, t) ==
    \/ \E k \in 1..Len(s) :
          /\ k <= Len(t)
          /\ \A j \in 1..(k - 1) : s[j] = t[j]
          /\ Ord(s[k]) < Ord(t[k])
    \/ /\ Len(s) <= Len(t)
       /\ \A j \in 1..Len(s) : s[j] = t[j]

\* os.path.splitext on a bare file name: the extension starts at the last
\* dot, unless only dots precede it
DotIndex(s) ==
    LET dots == {i \in 1..Len(s) : s[i] = "." /\ \E j \in 1..(i - 1) : s[j] # "."}
    IN IF dots = {} THEN 0 ELSE CHOOSE i \in dots : \A j \in dots : j <= i

SplitRoot(s) == IF DotIndex(s) = 0 THEN s ELSE SubSeq(s, 1, DotIndex(s) - 1)

SplitExt(s) == IF DotIndex(s) = 0 THEN << >> ELSE SubSeq(s, DotIndex(s), Len(s))

SUPPORTED_MIME ==
    { << ".", "d", "o", "c" >>, << ".", "d", "o", "c", "x" >>,
      << ".", "p", "p", "t" >>, << ".", "p", "p", "t", "x" >>,
      << ".", "x", "l", "s" >>, << ".", "x", "l", "s", "x" >> }

PdfName(name) == SplitRoot(name) \o << ".", "p", "d", "f" >>

RESUMABLE_THRESHOLD_BYTES == 5 * 1024 * 1024

RESUMABLE_UPLOAD_CHUNK_SIZE == 8 * 1024 * 1024

Attempts == 3

\* backoff = 1.0 second, in tenths of a second
InitialBackoff == 10

\* uniform(0, 0.2), in tenths of a second
Jitter == 0..2

(***************************************************************************)
(* The directory entries the model draws the input directory from.         *)
(***************************************************************************)
EntryUniverse ==
    { [name |-> << "a", ".", "d", "o", "c" >>, isfile |-> TRUE],
      [name |-> << "a", ".", "d", "o", "c", "x" >>, isfile |-> TRUE],
      [name |-> << "B", ".", "P", "P", "T", "X" >>, isfile |-> TRUE],
      [name |-> << "c", ".", "t", "x", "t" >>, isfile |-> TRUE],
      [name |-> << "d", ".", "x", "l", "s" >>, isfile |-> FALSE] }

Names == {e.name : e \in EntryUniverse}

PdfNames == {PdfName(n) : n \in Names}

\* file sizes drawn when the size is what is examined (SizeSpec)
Sizes ==
    { 0, RESUMABLE_THRESHOLD_BYTES - 1, RESUMABLE_THRESHOLD_BYTES,
      RESUMABLE_THRESHOLD_BYTES + 1, RESUMABLE_UPLOAD_CHUNK_SIZE + 1 }

\* file sizes of the entries when the size is not what is examined
DefaultSize(name) ==
    IF Len(name) = 5 THEN RESUMABLE_THRESHOLD_BYTES ELSE RESUMABLE_THRESHOLD_BYTES + 1

\* ids the remote service hands out for created files; None is Python's None
FileIds == {"id1", "id2"}

None == "None"

NoFile == [exists |-> FALSE, mtime |-> 0, content |-> << >>]

OldPdf(t) == [exists |-> TRUE, mtime |-> t, content |-> << "o", "l", "d" >>]

Errors == {"http400", "http", "io", "other"}

Statuses == {"success", "failed", "skipped"}

VARIABLES
    dir,        \* the entries of INPUT_DIR
    inp,        \* the convertible files of INPUT_DIR: name -> [mtime, size]
    out,        \* OUTPUT_DIR: pdf name -> [exists, mtime, content]
    now,        \* the clock that stamps modification times
    run,        \* "first" or "second" execution of the program
    ppc,        \* process_all: "list", "loop", "done"
    file_info,  \* process_all: the sorted list of <<name, size>>
    index,      \* process_all: number of files handed to convert_one
    results,    \* process_all: the success / failed / skipped counters
    fstatus,    \* per listed file: "pending", "running" or its status
    cpc,        \* convert_one: "idle", "start", "upload", "export",
                \*   "cleanup", "finally", "backoff", "returned"
    path,       \* convert_one: the file being converted
    resumable,  \* convert_one: the upload mode
    attempt,    \* convert_one: loop variable, 1..Attempts
    backoff,    \* convert_one: base wait in tenths of a second
    file_id,    \* convert_one: id of the temporary cloud copy, or None
    pending,    \* convert_one: value of a return statement whose finally
                \*   clause has not run yet, "none" when there is none
    ret,        \* convert_one: the returned status
    log,        \* remote calls issued in the current attempt
    slept,      \* the last time.sleep of the current call, 0 once the
                \*   next attempt has issued its upload
    err,        \* the error that ended the last failed attempt of the
                \*   current call, "none" once the next upload is issued
    entryOut,   \* OUTPUT_DIR as it was when convert_one was entered
    remote,     \* files of the current run a remote call was issued for
    prev,       \* statuses of the first run, by file name
    snap,       \* OUTPUT_DIR as it was when the second run started
    mpc,        \* main: "validate", "authorize", "process", "exit"
    exit_status, \* main: the status given to sys.exit, "none" before that
    client_id,  \* CLIENT_ID: a string, or None when the variable is unset
    client_secret, \* CLIENT_SECRET: a string, or None
    token,      \* the file token.json
    auth        \* what load_or_authorize did in this run

vars ==
    << dir, inp, out, now, run, ppc, file_info, index, results, fstatus,
       cpc, path, resumable, attempt, backoff, file_id, pending, ret, log,
       slept, err, entryOut, remote, prev, snap,
       mpc, exit_status, client_id, client_secret, token, auth >>

mainvars == << mpc, exit_status, client_id, client_secret, token, auth >>

(***************************************************************************)
(* main: the embedded client credentials and the stored token              *)
(***************************************************************************)
REPLACE_ME == << "R", "E", "P", "L", "A", "C", "E", "_", "M", "E", "_" >>

\* os.getenv: a string, or None when the variable is not set
Unset == [set |-> FALSE, value |-> << >>]

Str(v) == [set |-> TRUE, value |-> v]

ClientValues ==
    { Unset, Str(<< >>), Str(REPLACE_ME), Str(REPLACE_ME \o << "I", "D" >>),
      Str(<< "x" >>), Str(<< "x" >> \o REPLACE_ME) }

RealClient == Str(<< "x" >>)

\* str.startswith
StartsWith(s, p) == Len(s) >= Len(p) /\ SubSeq(s, 1, Len(p)) = p

\* a check that only looks for missing values
ValidClientNoPlaceholder(id, secret) ==
    ~ (\/ ~id.set \/ id.value = << >>
       \/ ~secret.set \/ secret.value = << >>)

\* validate_embedded_credentials does not raise SystemExit
ValidClient(id, secret) ==
    ~ (\/ ~id.set \/ id.value = << >>
       \/ StartsWith(id.value, REPLACE_ME)
       \/ ~secret.set \/ secret.value = << >>
       \/ StartsWith(secret.value, REPLACE_ME))

\* Credentials: whether there is an access token, whether it is past its
\* expiry, whether there is a refresh token; NoCreds is Python's None
NoCreds == [state |-> "none", token |-> FALSE, expired |-> FALSE, refresh_token |-> FALSE]

Creds(t, e, r) == [state |-> "creds", token |-> t, expired |-> e, refresh_token |-> r]

\* token.json: missing, not parseable, or stored credentials
NoToken == [state |-> "missing", token |-> FALSE, expired |-> FALSE, refresh_token |-> FALSE]

BadToken == [state |-> "unparseable", token |-> FALSE, expired |-> FALSE, refresh_token |-> FALSE]

TokenFiles ==
    {NoToken, BadToken} \cup {Creds(t, e, r) : t \in BOOLEAN, e \in BOOLEAN, r \in BOOLEAN}

\* os.path.exists(TOKEN_PATH) and Credentials.from_authorized_user_file
Loaded(file) == IF file.state = "creds" THEN file ELSE NoCreds

\* Credentials.valid
Valid(c) == c.token /\ ~c.expired

\* "if creds and creds.expired and creds.refresh_token"
NeedsRefresh(c) == c.state = "creds" /\ c.expired /\ c.refresh_token

\* a browser flow for every run that did not refresh
NeedsBrowserAlways(c) == TRUE

\* "if not creds or not creds.valid"
NeedsBrowser(c) == c.state # "creds" \/ ~Valid(c)

\* what save_credentials writes: the expiry is not among the fields
SavedFile(c) == Creds(c.token, FALSE, c.refresh_token)

NoAuth ==
    [called |-> FALSE, entry |-> NoToken, refresh |-> "none", browser |-> FALSE,
     saved |-> FALSE, creds |-> NoCreds]

(***************************************************************************)
(* The state before main runs: the input directory holds a few entries,    *)
(* all last modified before the program starts; the output directory may   *)
(* hold PDFs of earlier runs.  inp describes the files the program reads.  *)
(***************************************************************************)
\* a filter that compares the extension as it is spelled
EligibleCaseSensitive(e) == e.isfile /\ SplitExt(e.name) \in SUPPORTED_MIME

\* the entries process_all keeps: regular files with a supported extension
\* (os.path.getsize of a file just seen by os.path.isfile does not fail here)
Eligible(e) == e.isfile /\ Lower(SplitExt(e.name)) \in SUPPORTED_MIME

EligibleNames(d) == {e.name : e \in {x \in d : Eligible(x)}}

NoCall ==
    /\ cpc = "idle"
    /\ path = << >>
    /\ resumable = FALSE
    /\ attempt = 0
    /\ backoff = 0
    /\ file_id = None
    /\ pending = "none"
    /\ ret = "none"
    /\ log = << >>
    /\ slept = 0
    /\ err = "none"
    /\ entryOut = << >>

PdfStates == {NoFile} \cup {OldPdf(t) : t \in 1..MaxMtime}

\* sizeOf: the sizes the files may have, by name
InitFiles(dirs, sizeOf) ==
    /\ dir \in dirs
    /\ inp \in [EligibleNames(dir) -> [mtime : 1..MaxMtime, size : UNION {sizeOf[n] : n \in Names}]]
    /\ \A n \in DOMAIN inp : inp[n].size \in sizeOf[n]
    /\ \E o \in [{PdfName(n) : n \in EligibleNames(dir)} -> PdfStates] :
          out = [p \in PdfNames |-> IF p \in DOMAIN o THEN o[p] ELSE NoFile]
    /\ now = MaxMtime

\* the client credentials and token.json the program starts with
InitMain(clients, tokens) ==
    /\ client_id \in clients
    /\ client_secret \in clients
    /\ token \in tokens
    /\ mpc = "validate"
    /\ exit_status = "none"
    /\ auth = NoAuth

InitProgram ==
    /\ run = "first"
    /\ ppc = "list"
    /\ file_info = << >>
    /\ index = 0
    /\ results = [success |-> 0, failed |-> 0, skipped |-> 0]
    /\ fstatus = << >>
    /\ remote = {}
    /\ prev = << >>
    /\ snap = << >>
    /\ NoCall

Init ==
    /\ InitFiles({d \in SUBSET EntryUniverse : Cardinality(d) <= MaxEntries},
                 [n \in Names |-> {DefaultSize(n)}])
    /\ InitMain({RealClient}, {Creds(TRUE, FALSE, TRUE)})
    /\ InitProgram

(***************************************************************************)
(* process_all                                                             *)
(***************************************************************************)
\* a sort on the names as they are spelled
SortedListingsCaseSensitive(names) ==
    { s \in [1..Cardinality(names) -> names] :
        /\ \A i, j \in DOMAIN s : i # j => s[i] # s[j]
        /\ \A i \in DOMAIN s : i + 1 \in DOMAIN s => StrLeq(s[i], s[i + 1]) }

\* list.sort(key=lower-cased base name) over the order os.listdir gave
SortedListings(names) ==
    { s \in [1..Cardinality(names) -> names] :
        /\ \A i, j \in DOMAIN s : i # j => s[i] # s[j]
        /\ \A i \in DOMAIN s :
              i + 1 \in DOMAIN s => StrLeq(Lower(s[i]), Lower(s[i + 1])) }

List ==
    /\ mpc = "process"
    /\ ppc = "list"
    /\ UNCHANGED mainvars
    /\ LET names == EligibleNames(dir)
       IN IF names = {}
          THEN /\ ppc' = "done"
               /\ UNCHANGED << file_info, index, results, fstatus >>
          ELSE /\ \E s \in SortedListings(names) :
                    file_info' = [i \in DOMAIN s |-> << s[i], inp[s[i]].size >>]
               /\ index' = 0
               /\ results' = [success |-> 0, failed |-> 0, skipped |-> 0]
               /\ fstatus' = [n \in names |-> "pending"]
               /\ ppc' = "loop"
    /\ UNCHANGED << dir, inp, out, now, run, remote, prev, snap >>
    /\ UNCHANGED << cpc, path, resumable, attempt, backoff, file_id, pending,
                    ret, log, slept, err, entryOut >>

\* a runner that hands out the next file without waiting
CanDispatchAlways == TRUE

\* the for loop calls convert_one for the next file once the previous
\* call has returned and its status has been counted
CanDispatch == cpc = "idle"

Dispatch ==
    /\ ppc = "loop"
    /\ UNCHANGED mainvars
    /\ index < Len(file_info)
    /\ CanDispatch
    /\ index' = index + 1
    /\ path' = file_info[index + 1][1]
    /\ fstatus' = [fstatus EXCEPT ![file_info[index + 1][1]] = "running"]
    /\ cpc' = "start"
    /\ UNCHANGED << dir, inp, out, now, run, remote, prev, snap >>
    /\ UNCHANGED << ppc, file_info, results >>
    /\ UNCHANGED << resumable, attempt, backoff, file_id, pending, ret, log,
                    slept, err, entryOut >>

\* "try: status = convert_one(...) except Exception: status = 'failed'".
\* No statement of convert_one outside its try blocks raises when the size
\* is passed in, so "raised" is an outcome no action of the model produces.
StatusOf(outcome) == IF outcome = "raised" THEN "failed" ELSE outcome

\* counters that miss the failures
CountNoFailures(res, status) ==
    IF status \in DOMAIN res /\ status # "failed" THEN [res EXCEPT ![status] = @ + 1] ELSE res

\* results[status] += 1 for a status that is one of the three counters
Count(res, status) ==
    IF status \in DOMAIN res THEN [res EXCEPT ![status] = @ + 1] ELSE res

Record ==
    /\ ppc = "loop"
    /\ cpc = "returned"
    /\ UNCHANGED mainvars
    /\ results' = Count(results, StatusOf(ret))
    /\ fstatus' = [fstatus EXCEPT ![path] = StatusOf(ret)]
    /\ cpc' = "idle"
    /\ path' = << >>
    /\ resumable' = FALSE
    /\ attempt' = 0
    /\ backoff' = 0
    /\ file_id' = None
    /\ pending' = "none"
    /\ ret' = "none"
    /\ log' = << >>
    /\ slept' = 0
    /\ err' = "none"
    /\ entryOut' = << >>
    /\ UNCHANGED << dir, inp, out, now, run, remote, prev, snap >>
    /\ UNCHANGED << ppc, file_info, index >>

Finish ==
    /\ ppc = "loop"
    /\ UNCHANGED mainvars
    /\ index = Len(file_info)
    /\ cpc = "idle"
    /\ ppc' = "done"
    /\ UNCHANGED << dir, inp, out, now, run, remote, prev, snap >>
    /\ UNCHANGED << file_info, index, results, fstatus >>
    /\ UNCHANGED << cpc, path, resumable, attempt, backoff, file_id, pending,
                    ret, log, slept, err, entryOut >>

\* the program is run again over the same input and output directories,
\* with the token.json the first run left
Rerun ==
    /\ \/ mpc = "process" /\ ppc = "done"
       \/ mpc = "exit"
    /\ run = "first"
    /\ run' = "second"
    /\ now' = now + 1
    /\ prev' = fstatus
    /\ snap' = out
    /\ mpc' = "validate"
    /\ exit_status' = "none"
    /\ auth' = NoAuth
    /\ ppc' = "list"
    /\ file_info' = << >>
    /\ index' = 0
    /\ results' = [success |-> 0, failed |-> 0, skipped |-> 0]
    /\ fstatus' = << >>
    /\ remote' = {}
    /\ UNCHANGED << dir, inp, out, client_id, client_secret, token >>
    /\ UNCHANGED << cpc, path, resumable, attempt, backoff, file_id, pending,
                    ret, log, slept, err, entryOut >>

(***************************************************************************)
(* convert_one                                                             *)
(***************************************************************************)
\* a comparison that misses the equal modification times
UpToDateStrict(o, src) == o.exists /\ o.mtime > src.mtime

\* the output exists and os.path.getmtime(out_path) >= os.path.getmtime(path).
\* The OSError branch needs a file to vanish between the two calls; only
\* the program changes the directories here, and it removes nothing.
UpToDate(o, src) == o.exists /\ o.mtime >= src.mtime

\* a threshold that includes the boundary
IsResumableFromThreshold(sz) == sz >= RESUMABLE_THRESHOLD_BYTES

\* "resumable = size > RESUMABLE_THRESHOLD_BYTES"
IsResumable(sz) == sz > RESUMABLE_THRESHOLD_BYTES

\* keyword arguments of MediaFileUpload; chunksize 0 stands for "not given"
UploadKwargs(res) ==
    [resumable |-> res, chunksize |-> IF res THEN RESUMABLE_UPLOAD_CHUNK_SIZE ELSE 0]

\* the except clauses: the status to return, "none" to go on to the backoff
Handler(e, att) ==
    CASE e = "http400" -> IF att = Attempts THEN "failed" ELSE "none"
      [] e = "http" -> "none"
      [] e = "io" -> IF att = Attempts THEN "failed" ELSE "none"
      [] OTHER -> IF att = Attempts THEN "failed" ELSE "none"

\* open(out_path, "wb"): the file is created or truncated
Truncated(t) == [exists |-> TRUE, mtime |-> t, content |-> << >>]

\* a write that leaves the opened file empty
WrittenNothing(t, src) == Truncated(t)

\* f.write(bytes exported from the upload of src)
Written(t, src) == [exists |-> TRUE, mtime |-> t, content |-> src]

\* a finally clause that never cleans up
NeedsCleanupNever(id) == FALSE

\* "if file_id:" of the finally clause
NeedsCleanup(id) == id # None

\* a loop that runs one iteration too many
LoopContinuesOffByOne(att) == att <= Attempts

\* "for attempt in range(1, attempts + 1)": there is another iteration
LoopContinues(att) == att < Attempts

\* a backoff that stays constant
NextBackoffConstant(b) == b

\* "backoff *= 2"
NextBackoff(b) == b * 2

\* a delete whose failure ends the attempt as a failure
AfterDeleteRaises(ok, p) == IF ok THEN p ELSE "failed"

\* try: delete ... except Exception: pass -- what the attempt was going to
\* return (p) is what it returns, whether the delete worked or not
AfterDelete(ok, p) == p

DeleteCall(id, ok) == [op |-> "delete", id |-> id, res |-> IF ok THEN "ok" ELSE "http"]

Enter ==
    /\ cpc = "start"
    /\ UNCHANGED mainvars
    /\ entryOut' = out
    /\ IF \/ Lower(SplitExt(path)) \notin SUPPORTED_MIME
          \/ UpToDate(out[PdfName(path)], inp[path])
       THEN /\ ret' = "skipped"
            /\ cpc' = "returned"
            /\ UNCHANGED << resumable, attempt, backoff >>
       ELSE /\ resumable' = IsResumable(file_info[index][2])
            /\ attempt' = 1
            /\ backoff' = InitialBackoff
            /\ cpc' = "upload"
            /\ UNCHANGED ret
    /\ UNCHANGED << dir, inp, out, now, run, remote, prev, snap >>
    /\ UNCHANGED << ppc, file_info, index, results, fstatus >>
    /\ UNCHANGED << path, file_id, pending, log, slept, err >>

\* MediaFileUpload(...) and drive.files().create(...).execute()
Upload ==
    /\ cpc = "upload"
    /\ UNCHANGED mainvars
    /\ slept' = 0
    /\ \/ /\ err' = "io"                    \* MediaFileUpload cannot read the file
          /\ pending' = Handler("io", attempt)
          /\ cpc' = "finally"
          /\ UNCHANGED << file_id, log, remote >>
       \/ \E id \in FileIds :
             /\ file_id' = id
             /\ log' = << [op |-> "upload", id |-> id, res |-> "ok",
                           kwargs |-> UploadKwargs(resumable)] >>
             /\ remote' = remote \cup {path}
             /\ err' = "none"
             /\ cpc' = "export"
             /\ UNCHANGED pending
       \/ \E e \in Errors :
             /\ log' = << [op |-> "upload", id |-> None, res |-> e,
                           kwargs |-> UploadKwargs(resumable)] >>
             /\ remote' = remote \cup {path}
             /\ err' = e
             /\ pending' = Handler(e, attempt)
             /\ cpc' = "finally"
             /\ UNCHANGED file_id
    /\ UNCHANGED << dir, inp, out, now, run, prev, snap >>
    /\ UNCHANGED << ppc, file_info, index, results, fstatus >>
    /\ UNCHANGED << path, resumable, attempt, backoff, ret, entryOut >>

\* open(out_path, "wb") and f.write(request.execute(num_retries=2))
Export ==
    /\ cpc = "export"
    /\ UNCHANGED mainvars
    /\ \/ /\ err' = "io"                    \* open fails: nothing is requested
          /\ pending' = Handler("io", attempt)
          /\ cpc' = "finally"
          /\ UNCHANGED << out, log >>
       \/ /\ out' = [out EXCEPT ![PdfName(path)] = Written(now, path)]
          /\ log' = Append(log, [op |-> "export", id |-> file_id, res |-> "ok"])
          /\ cpc' = "cleanup"
          /\ UNCHANGED << err, pending >>
       \/ /\ out' = [out EXCEPT ![PdfName(path)] = Truncated(now)]
          /\ log' = Append(log, [op |-> "export", id |-> file_id, res |-> "ok"])
          /\ err' = "io"                    \* the export succeeds, f.write fails
          /\ pending' = Handler("io", attempt)
          /\ cpc' = "finally"
       \/ \E e \in Errors :                  \* the file is open, the export fails
             /\ out' = [out EXCEPT ![PdfName(path)] = Truncated(now)]
             /\ log' = Append(log, [op |-> "export", id |-> file_id, res |-> e])
             /\ err' = e
             /\ pending' = Handler(e, attempt)
             /\ cpc' = "finally"
    /\ UNCHANGED << dir, inp, now, run, remote, prev, snap >>
    /\ UNCHANGED << ppc, file_info, index, results, fstatus >>
    /\ UNCHANGED << path, resumable, attempt, backoff, file_id, ret, slept, entryOut >>

\* the best-effort cleanup before return "success"
Cleanup ==
    /\ cpc = "cleanup"
    /\ UNCHANGED mainvars
    /\ \E ok \in BOOLEAN :
          /\ log' = Append(log, DeleteCall(file_id, ok))
          /\ pending' = AfterDelete(ok, "success")
    /\ cpc' = "finally"
    /\ UNCHANGED << dir, inp, out, now, run, remote, prev, snap >>
    /\ UNCHANGED << ppc, file_info, index, results, fstatus >>
    /\ UNCHANGED << path, resumable, attempt, backoff, file_id, ret, slept, err, entryOut >>

\* the finally clause, then the pending return if there is one
Finally ==
    /\ cpc = "finally"
    /\ UNCHANGED mainvars
    /\ \E ok \in BOOLEAN :
          /\ IF NeedsCleanup(file_id)
             THEN log' = Append(log, DeleteCall(file_id, ok))
             ELSE /\ ok
                  /\ UNCHANGED log
          /\ IF AfterDelete(ok, pending) # "none"
             THEN /\ ret' = AfterDelete(ok, pending)
                  /\ cpc' = "returned"
             ELSE /\ cpc' = "backoff"
                  /\ UNCHANGED ret
    /\ UNCHANGED << dir, inp, out, now, run, remote, prev, snap >>
    /\ UNCHANGED << ppc, file_info, index, results, fstatus >>
    /\ UNCHANGED << path, resumable, attempt, backoff, file_id, pending, slept, err, entryOut >>

\* time.sleep(backoff + uniform(0, 0.2)); backoff *= 2; the next iteration
\* of the loop, or return "failed" when the loop is over
Backoff ==
    /\ cpc = "backoff"
    /\ UNCHANGED mainvars
    /\ \E j \in Jitter : slept' = backoff + j
    /\ backoff' = NextBackoff(backoff)
    /\ IF LoopContinues(attempt)
       THEN /\ attempt' = attempt + 1
            /\ file_id' = None
            /\ log' = << >>
            /\ cpc' = "upload"
            /\ UNCHANGED ret
       ELSE /\ ret' = "failed"
            /\ cpc' = "returned"
            /\ UNCHANGED << attempt, file_id, log >>
    /\ UNCHANGED << dir, inp, out, now, run, remote, prev, snap >>
    /\ UNCHANGED << ppc, file_info, index, results, fstatus >>
    /\ UNCHANGED << path, resumable, pending, err, entryOut >>

(***************************************************************************)
(* main                                                                    *)
(***************************************************************************)
procvars ==
    << dir, inp, out, now, run, ppc, file_info, index, results, fstatus,
       cpc, path, resumable, attempt, backoff, file_id, pending, ret, log,
       slept, err, entryOut, remote, prev, snap >>

\* ensure_directories() and validate_embedded_credentials(); SystemExit is
\* caught by main, which calls sys.exit(1)
Validate ==
    /\ mpc = "validate"
    /\ IF ValidClient(client_id, client_secret)
       THEN /\ mpc' = "authorize"
            /\ UNCHANGED exit_status
       ELSE /\ mpc' = "exit"
            /\ exit_status' = "1"
    /\ UNCHANGED << client_id, client_secret, token, auth >>
    /\ UNCHANGED procvars

\* save_credentials: the file is written, or the error is only logged
AfterSave(c, wrote) == IF wrote THEN SavedFile(c) ELSE token

\* load_or_authorize() and build_drive(creds); an exception of the browser
\* flow is caught by main, which calls sys.exit(1)
Authorize ==
    /\ mpc = "authorize"
    /\ LET c == Loaded(token)
           base == [NoAuth EXCEPT !.called = TRUE, !.entry = token]
       IN \/ /\ NeedsRefresh(c)                  \* the refresh succeeds
             /\ \E wrote \in BOOLEAN : token' = AfterSave(Creds(TRUE, FALSE, TRUE), wrote)
             /\ auth' = [base EXCEPT !.refresh = "ok", !.saved = TRUE,
                                     !.creds = Creds(TRUE, FALSE, TRUE)]
             /\ mpc' = "process"
             /\ UNCHANGED exit_status
          \/ /\ TRUE                  \* no refresh is due, or the refresh fails
             /\ LET r == IF NeedsRefresh(c) THEN "failed" ELSE "none"
                IN IF NeedsBrowser(c)
                   THEN \/ \E rt \in BOOLEAN, wrote \in BOOLEAN :
                             /\ token' = AfterSave(Creds(TRUE, FALSE, rt), wrote)
                             /\ auth' = [base EXCEPT !.refresh = r, !.browser = TRUE,
                                                     !.saved = TRUE,
                                                     !.creds = Creds(TRUE, FALSE, rt)]
                             /\ mpc' = "process"
                             /\ UNCHANGED exit_status
                        \/ /\ auth' = [base EXCEPT !.refresh = r, !.browser = TRUE]
                           /\ mpc' = "exit"
                           /\ exit_status' = "1"
                           /\ UNCHANGED token
                   ELSE /\ auth' = [base EXCEPT !.refresh = r, !.creds = c]
                        /\ mpc' = "process"
                        /\ UNCHANGED << token, exit_status >>
    /\ UNCHANGED << client_id, client_secret >>
    /\ UNCHANGED procvars

Next ==
    \/ Validate
    \/ Authorize
    \/ List
    \/ Dispatch
    \/ Record
    \/ Finish
    \/ Rerun
    \/ Enter
    \/ Upload
    \/ Export
    \/ Cleanup
    \/ Finally
    \/ Backoff

Spec == Init /\ [][Next]_vars

(***************************************************************************)
(* The same program over directories of a single entry whose size ranges   *)
(* over Sizes: the values around the resumable-upload threshold.           *)
(***************************************************************************)
SizeInit ==
    /\ InitFiles({d \in SUBSET EntryUniverse : Cardinality(d) = 1},
                 [n \in Names |-> Sizes])
    /\ InitMain({RealClient}, {Creds(TRUE, FALSE, TRUE)})
    /\ InitProgram

SizeSpec == SizeInit /\ [][Next]_vars

(***************************************************************************)
(* The same program over one convertible file, started with every          *)
(* combination of client credentials and stored token.                     *)
(***************************************************************************)
MainInit ==
    /\ InitFiles({{e} : e \in {x \in EntryUniverse : x.name = << "a", ".", "d", "o", "c" >>}},
                 [n \in Names |-> {DefaultSize(n)}])
    /\ InitMain(ClientValues, TokenFiles)
    /\ InitProgram

MainSpec == MainInit /\ [][Next]_vars

(***************************************************************************)
(* Properties                                                              *)
(***************************************************************************)
OpRank(op) == CASE op = "upload" -> 1 [] op = "export" -> 2 [] OTHER -> 3

InOrder(l) ==
    /\ \A i, j \in DOMAIN l : i < j => OpRank(l[i].op) <= OpRank(l[j].op)
    /\ Cardinality({i \in DOMAIN l : l[i].op = "upload"}) <= 1
    /\ Cardinality({i \in DOMAIN l : l[i].op = "export"}) <= 1
    /\ l # << >> => l[1].op = "upload"

\* C1: convert_one returns "success" only if, in the attempt that returns,
\* the upload returned a file id, the export of that id succeeded and the
\* exported bytes of this source are in the output PDF; and the remote
\* calls of an attempt are always ordered upload, export, delete.
C1_SuccessAfterUploadExportWrite ==
    /\ InOrder(log)
    /\ (cpc = "returned" /\ ret = "success") =>
          /\ Len(log) >= 3
          /\ log[1].op = "upload" /\ log[1].res = "ok"
          /\ log[1].id \in FileIds /\ log[1].id = file_id
          /\ log[2].op = "export" /\ log[2].res = "ok" /\ log[2].id = file_id
          /\ log[3].op = "delete"
          /\ out[PdfName(path)].exists
          /\ out[PdfName(path)].content = path
          /\ out[PdfName(path)].mtime = now

C1_Witness == cpc = "returned" /\ ret = "success" /\ attempt = 2 /\ Len(log) = 4

\* C2: in every attempt whose upload returned a file id, a delete of that
\* id has been issued, after the upload and the export, by the time the
\* attempt is over (the backoff before the next attempt, or the return).
C2_DeleteIssuedForEveryCopy ==
    (cpc \in {"backoff", "returned"} /\ file_id # None) =>
        \E i \in DOMAIN log :
            /\ log[i].op = "delete"
            /\ log[i].id = file_id
            /\ \A j \in DOMAIN log : log[j].op \in {"upload", "export"} => j < i

C2_Witness ==
    /\ cpc = "backoff"
    /\ file_id # None
    /\ Len(log) = 3
    /\ log[2].op = "export" /\ log[2].res = "http"
    /\ log[3].op = "delete"

\* C3: convert_one makes at most 3 attempts for a file, each with at most
\* one upload, and when the third attempt has failed too it returns
\* "failed".
C3_AttemptBudget ==
    /\ attempt <= 3
    /\ Cardinality({i \in DOMAIN log : log[i].op = "upload"}) <= 1
    /\ (cpc = "returned" /\ attempt = 3 /\ err # "none") => ret = "failed"

C3_Witness ==
    /\ cpc = "returned"
    /\ attempt = 3
    /\ err = "http"
    /\ ret = "failed"
    /\ log[1].op = "upload"

\* C4: after a remote call failed with HTTP 400, convert_one returns
\* "failed" without another attempt: no attempt follows one that a 400 ended.
C4_Http400IsNotRetried ==
    /\ (cpc = "finally" /\ err = "http400") => pending = "failed"
    /\ (cpc = "upload" /\ attempt > 1) => err # "http400"

\* C5: the wait before attempt 2 is 1 s and before attempt 3 is 2 s, each
\* plus a jitter of 0 to 0.2 s (the base doubles after every failed
\* attempt: 4 s follow the third), and no attempt after the first starts
\* without that wait.
C5_ExponentialBackoff ==
    /\ (cpc = "upload" /\ attempt = 2) => slept \in {10 + j : j \in 0..2}
    /\ (cpc = "upload" /\ attempt = 3) => slept \in {20 + j : j \in 0..2}
    /\ (cpc = "returned" /\ slept # 0) => slept \in {40 + j : j \in 0..2}
    /\ (cpc = "backoff" /\ attempt = 1) => backoff = 10
    /\ (cpc = "backoff" /\ attempt = 2) => backoff = 20

C5_Witness == cpc = "upload" /\ attempt = 3 /\ slept = 22

InFlight == Cardinality({n \in DOMAIN fstatus : fstatus[n] = "running"})

Waiting == {n \in DOMAIN fstatus : fstatus[n] = "pending"}

\* C6 (as claimed): conversions of different files can be in flight at the
\* same time: while one is in flight and another file waits, the runner
\* can hand the waiting file to convert_one.
C6_ConcurrentDispatchPossible ==
    (ppc = "loop" /\ InFlight >= 1 /\ Waiting # {}) => ENABLED Dispatch

\* C6 (amended): the runner converts the files one at a time: at most one
\* conversion is in flight, and a file is handed to convert_one only after
\* every file before it has its status.
C6_OneAtATime ==
    /\ InFlight <= 1
    /\ cpc # "idle" => InFlight = 1 /\ fstatus[path] = "running"
    /\ \A i \in DOMAIN file_info :
          (i < index => fstatus[file_info[i][1]] \in Statuses)

C6_Witness ==
    /\ InFlight = 1
    /\ cpc = "export"
    /\ Waiting # {}

\* C7: when process_all has finished a batch, every listed file is counted
\* once, under its own status: the three counters add up to the number of
\* files listed.
C7_EveryFileCountedOnce ==
    ppc = "done" =>
        /\ results.success + results.failed + results.skipped = Len(file_info)
        /\ Len(file_info) = Cardinality(EligibleNames(dir))
        /\ \A s \in Statuses :
              results[s] = Cardinality({i \in DOMAIN file_info : fstatus[file_info[i][1]] = s})

C7_Witness ==
    /\ ppc = "done"
    /\ Len(file_info) = 2
    /\ results.failed = 1
    /\ results.success = 1

\* C8: a file whose output PDF exists with a modification time not older
\* than the source is returned "skipped" with no remote call and with the
\* output directory untouched; with the output missing or older the file
\* is not skipped.
C8_SkipIffUpToDate ==
    cpc = "returned" =>
        LET o == entryOut[PdfName(path)]
            fresh == o.exists /\ o.mtime >= inp[path].mtime
        IN /\ fresh => /\ ret = "skipped"
                                          /\ log = << >>
                       /\ out = entryOut
           /\ ~fresh => ret # "skipped"

C8_Witness ==
    /\ cpc = "returned"
    /\ ret = "skipped"
    /\ entryOut[PdfName(path)].mtime = inp[path].mtime
    /\ entryOut[PdfName(path)].content = << "o", "l", "d" >>

\* C9: in a second run over the unchanged input, every file that ended
\* "success" or "skipped" in the first run ends "skipped", with no remote
\* call issued for it and its output PDF as the first run left it.
C9_SecondRunChangesNothing ==
    (ppc = "done" /\ run = "second") =>
        \A n \in DOMAIN prev :
            prev[n] \in {"success", "skipped"} =>
                /\ fstatus[n] = "skipped"
                /\ n \notin remote
                /\ out[PdfName(n)] = snap[PdfName(n)]

\* C10: every upload of a file is resumable, with the 8 MiB chunk size,
\* exactly when the file is larger than 5 * 1024 * 1024 bytes; at the
\* threshold or below no attempt uploads in resumable mode.
C10_ResumableIffAboveThreshold ==
    \A i \in DOMAIN log :
        log[i].op = "upload" =>
            LET big == file_info[index][2] > 5242880
            IN /\ log[i].kwargs.resumable = big
               /\ log[i].kwargs.chunksize = IF big THEN 8388608 ELSE 0

C10_Witness ==
    /\ cpc = "export"
    /\ attempt = 3
    /\ file_info[index][2] = 5242880
    /\ log[1].kwargs.resumable = FALSE

\* C11: load_or_authorize launches the browser flow only without a usable
\* stored token: valid unexpired credentials are returned as stored, with
\* no browser flow and nothing saved; expired credentials with a refresh
\* token whose refresh succeeds are saved and returned, with no browser
\* flow; the browser flow runs exactly when the stored token is not valid
\* (missing, unparseable, without access token, or expired) and no refresh
\* succeeded.
C11_BrowserOnlyWithoutUsableToken ==
    auth.called =>
        LET e == auth.entry
            usable == e.state = "creds" /\ e.token /\ ~e.expired
            refreshable == e.state = "creds" /\ e.expired /\ e.refresh_token
        IN /\ usable => /\ ~auth.browser
                        /\ auth.refresh = "none"
                        /\ ~auth.saved
                        /\ auth.creds = e
                        /\ token = e
                        /\ mpc = "process"
           /\ auth.refresh = "ok" => /\ refreshable
                                     /\ ~auth.browser
                                     /\ auth.saved
                                     /\ auth.creds.token /\ ~auth.creds.expired
                                     /\ token \in {e, auth.creds}
                                     /\ mpc = "process"
           /\ auth.refresh = "failed" => refreshable
           /\ auth.browser <=> (~usable /\ auth.refresh # "ok")

C11_Witness ==
    /\ run = "first"
    /\ auth.called
    /\ auth.refresh = "ok"
    /\ ~auth.browser
    /\ ~auth.entry.token
    /\ token = auth.creds
    /\ cpc = "upload"

\* C12: with CLIENT_ID or CLIENT_SECRET unset, empty or starting with
\* REPLACE_ME_, main exits with status 1 and neither load_or_authorize nor
\* any remote call has happened.
C12_NoRunWithoutClientCredentials ==
    LET placeholder(v) ==
            \/ ~v.set
            \/ Len(v.value) = 0
            \/ /\ Len(v.value) >= Len(REPLACE_ME)
               /\ \A i \in 1..Len(REPLACE_ME) : v.value[i] = REPLACE_ME[i]
    IN (placeholder(client_id) \/ placeholder(client_secret)) =>
          /\ mpc \in {"validate", "exit"}
          /\ mpc = "exit" => exit_status = "1"
          /\ ~auth.called
          /\ remote = {}
          /\ log = << >>
          /\ cpc = "idle"
          /\ ppc = "list"

C12_Witness ==
    /\ mpc = "exit"
    /\ exit_status = "1"
    /\ client_id = RealClient
    /\ client_secret = Str(REPLACE_ME \o << "I", "D" >>)
    /\ token = Creds(TRUE, FALSE, TRUE)
    /\ ~auth.called

\* the extension of the name, compared without regard to case, is one of
\* .doc .docx .ppt .pptx .xls .xlsx
HasOfficeExtension(name) ==
    \E x \in SUPPORTED_MIME :
        /\ Len(SplitExt(name)) = Len(x)
        /\ \A i \in 1..Len(x) : LowerChar(SplitExt(name)[i]) = x[i]

OfficeFiles == {e.name : e \in {x \in dir : x.isfile /\ HasOfficeExtension(x.name)}}

\* C13: the files process_all lists and hands to convert_one are exactly
\* the regular files of the input directory with an office extension in
\* any case; no other entry is converted or counted.
C13_EligibleAreExactlyOfficeFiles ==
    /\ cpc # "idle" => path \in OfficeFiles
    /\ ppc = "loop" => DOMAIN fstatus = OfficeFiles
    /\ (mpc = "process" /\ ppc = "done") =>
          /\ DOMAIN fstatus = OfficeFiles
          /\ \A n \in OfficeFiles : fstatus[n] \in Statuses
          /\ results.success + results.failed + results.skipped = Cardinality(OfficeFiles)

C13_Witness ==
    /\ mpc = "process"
    /\ ppc = "done"
    /\ Cardinality(dir) = 2
    /\ \E e \in dir : ~e.isfile
    /\ \E e \in dir : e.name = << "B", ".", "P", "P", "T", "X" >>
    /\ results.success = 1
    /\ results.failed = 0
    /\ results.skipped = 0

\* C14: the files are handed to convert_one one after the other, each
\* once, in ascending order of the lower-cased name, the next one only
\* when all before it have their status; a failed file does not keep the
\* rest from being converted.
C14_SequentialInNameOrder ==
    /\ \A i, j \in DOMAIN file_info :
          /\ i < j => StrLeq(Lower(file_info[i][1]), Lower(file_info[j][1]))
          /\ i # j => file_info[i][1] # file_info[j][1]
    /\ ppc = "loop" =>
          /\ \A i \in DOMAIN file_info :
                /\ i < index => fstatus[file_info[i][1]] \in Statuses
                /\ i > index => fstatus[file_info[i][1]] = "pending"
          /\ cpc # "idle" => /\ index \in DOMAIN file_info
                             /\ path = file_info[index][1]
                             /\ fstatus[path] = "running"
          /\ (cpc = "idle" /\ index \in DOMAIN file_info) =>
                fstatus[file_info[index][1]] \in Statuses
          /\ (cpc = "idle" /\ index < Len(file_info)) => ENABLED Dispatch
    /\ (mpc = "process" /\ ppc = "done") =>
          /\ index = Len(file_info)
          /\ \A i \in DOMAIN file_info : fstatus[file_info[i][1]] \in Statuses

C14_Witness ==
    /\ ppc = "done"
    /\ Len(file_info) = 2
    /\ file_info[1][1] = << "a", ".", "d", "o", "c", "x" >>
    /\ file_info[2][1] = << "B", ".", "P", "P", "T", "X" >>
    /\ fstatus[file_info[1][1]] = "failed"
    /\ fstatus[file_info[2][1]] = "success"

\* C15: a delete that fails changes nothing. An attempt whose upload and
\* export succeeded and whose PDF is written returns "success" whatever the
\* deletes did; "failed" is returned by the last attempt only, and there
\* are never more than Attempts attempts, whatever the deletes did.
C15_DeleteFailureChangesNothing ==
    /\ ( /\ cpc = "returned"
         /\ ret # "skipped"
         /\ err = "none"
         /\ Len(log) >= 2
         /\ log[1].op = "upload" /\ log[1].res = "ok"
         /\ log[2].op = "export" /\ log[2].res = "ok" )
       => /\ ret = "success"
          /\ out[PdfName(path)].content = path
    /\ (cpc = "returned" /\ ret = "failed") => attempt = Attempts
    /\ cpc \in {"upload", "export", "cleanup", "finally", "backoff"} =>
          attempt \in 1..Attempts
    /\ ( /\ cpc = "backoff"
         /\ Len(log) >= 1
         /\ log[Len(log)].op = "delete" /\ log[Len(log)].res # "ok" )
       => pending = "none"

C15_Witness ==
    /\ cpc = "returned"
    /\ ret = "success"
    /\ attempt = 2
    /\ Len(log) = 4
    /\ log[3].op = "delete" /\ log[3].res # "ok"
    /\ log[4].op = "delete" /\ log[4].res # "ok"

\* C16: a call of convert_one that returns "failed" leaves the output
\* path as it found it (no file created, an existing file not emptied or
\* touched), and so a file that failed in one run is not reported
\* "skipped" by the next run.
C16_FailedLeavesOutputUntouched ==
    /\ (cpc = "returned" /\ ret = "failed") =>
          out[PdfName(path)] = entryOut[PdfName(path)]
    /\ ( /\ run = "second"
         /\ cpc = "returned"
         /\ path \in DOMAIN prev
         /\ prev[path] = "failed" )
       => ret # "skipped"

\* C17: a file is reported "skipped" only on account of a PDF made from
\* that file: never on account of a PDF that this batch wrote from another
\* file of the directory (a.doc and a.docx are each converted).
C17_SkippedOnlyForOwnOutput ==
    (cpc = "returned" /\ ret = "skipped") =>
        \A n \in DOMAIN fstatus :
            n # path => entryOut[PdfName(path)].content # n

====
